---- MODULE Spec2Model ----
(***************************************************************************)
(* Model of util/geo.py: buffering of GeoJSON points and linestrings into  *)
(* closed polygon rings (filter_small_segments, explode_sharp_angles,      *)
(* point_to_square, geojson_linestring_to_poly, convert_to_geojson_poly).  *)
(*                                                                         *)
(* Geography.  Coordinates are pairs <<lon, lat>> on an integer grid whose *)
(* unit is GridMeters metres.  The grid is small, so the earth is locally  *)
(* flat: the geodesic distance is the Euclidean one, the geodesic azimuth  *)
(* of a segment is its planar direction, and the Mercator projection       *)
(* keeps directions.  Distances are compared through their squares and     *)
(* angles through dot and cross products, so no rounding is involved.      *)
(*                                                                         *)
(* Output coordinates are kept as terms: the coordinate obtained by        *)
(* projecting base to EPSG:3857, adding (width / 2) * vec (vec scaled to   *)
(* unit length when norm = "unit") and projecting back to EPSG:4326.  Two  *)
(* terms are equal exactly when the floating point values are computed     *)
(* from the same operands.                                                 *)
(***************************************************************************)
EXTENDS Integers, Sequences, FiniteSets, TLC

VARIABLES feature, width, pc, filtered_coords, lines, result, error

vars == <<feature, width, pc, filtered_coords, lines, result, error>>

(* ---------------------------- bounds ---------------------------------- *)

\* Longest coordinate sequence of an input LineString.
MaxLen == 5

\* Metres per grid unit.
GridMeters == 20

\* Widths handed to the dispatcher: below, at and above DEFAULT_WIDTH.
Widths == {10, 25, 40}

\* Steps between consecutive input coordinates: a duplicate point, short
\* and long steps, turns of 45, 90 and 180 degrees.
Steps == {<<0, 0>>, <<1, 0>>, <<1, 1>>, <<0, 1>>, <<0, 2>>, <<0, -1>>}

(* --------------------------- constants -------------------------------- *)

DEFAULT_WIDTH == 25

\* Default of explode_sharp_angles' threshold parameter, in degrees.
threshold == 45

\* Python's None.
None == [crs |-> "None"]

(* ---------------------------- helpers --------------------------------- *)

Abs(x) == IF x < 0 THEN -x ELSE x

RECURSIVE Gcd(_, _)
Gcd(a, b) == IF b = 0 THEN a ELSE Gcd(b, a % b)

\* math.sqrt(dx ** 2 + dy ** 2) is zero exactly when both components are.
mag(dx, dy) == Gcd(Abs(dx), Abs(dy))

\* A raised exception, as the value an operator returns in place of a result.
Raised(v) == "exc" \in DOMAIN v

(* ------------------------- geodesy / projection ----------------------- *)

\* geopy.distance.distance(a, b).meters, squared.
distance_sq(a, b) ==
  GridMeters * GridMeters *
    ((a[1] - b[1]) * (a[1] - b[1]) + (a[2] - b[2]) * (a[2] - b[2]))

\* abs_angular_delta(azi_a, azi_b) of the azimuths of p0->p1 and p1->p2:
\* the unsigned turn angle theta in [0, 180], kept as the pair
\* (|u| |v| cos theta, |u| |v| sin theta) of the two direction vectors.
angle_between_segments(p0, p1, p2) ==
  LET ux == p1[1] - p0[1]
      uy == p1[2] - p0[2]
      vx == p2[1] - p1[1]
      vy == p2[2] - p1[2]
  IN  [cos |-> ux * vx + uy * vy, sin |-> Abs(ux * vy - uy * vx)]

\* theta <= t, for the multiples of 45 degrees (tan 45 = 1).
theta_le(theta, t) ==
  CASE t = 0 -> theta.cos > 0 /\ theta.sin = 0
    [] t = 45 -> theta.cos > 0 /\ theta.sin <= theta.cos
    [] t = 90 -> theta.cos >= 0
    [] t = 135 -> theta.cos >= 0 \/ theta.sin >= -theta.cos
    [] t = 180 -> TRUE

\* WGS_TO_MERCATOR.transform(*coord)
WGS_TO_MERCATOR(coord) == [crs |-> "EPSG:3857", at |-> coord]

\* MERCATOR_TO_WGS.transform(m.x + k * vec[1], m.y + k * vec[2]), k = w / 2
\* (norm = "axes") or k = w / (2 |vec|) (norm = "unit").
MERCATOR_TO_WGS(m, vec, norm, w) ==
  [crs |-> "EPSG:4326", base |-> m.at, vec |-> vec, norm |-> norm, width |-> w]

\* get_coords(feature): the geometry of a feature, or the geometry itself.
get_coords(geo) ==
  IF "geometry" \in DOMAIN geo THEN geo.geometry.coordinates ELSE geo.coordinates

(* ------------------------ filter_small_segments ----------------------- *)

\* Mutant of filter_loop: prev is never advanced, so every candidate is
\* measured from the first coordinate.
RECURSIVE filter_loop_stale_prev(_, _, _, _, _)
filter_loop_stale_prev(coords, min_length, i, new_coords, prev) ==
  IF i > Len(coords) THEN new_coords
  ELSE LET cur == coords[i]
       IN  IF distance_sq(cur, prev) < min_length * min_length
           THEN filter_loop_stale_prev(coords, min_length, i + 1, new_coords, prev)
           ELSE filter_loop_stale_prev(coords, min_length, i + 1,
                                       Append(new_coords, cur), prev)

\* The loop body of filter_small_segments from index i on (1-based),
\* with the list built so far and the last retained coordinate.
RECURSIVE filter_loop(_, _, _, _, _)
filter_loop(coords, min_length, i, new_coords, prev) ==
  IF i > Len(coords) THEN new_coords
  ELSE LET cur == coords[i]
       IN  IF distance_sq(cur, prev) < min_length * min_length
           THEN filter_loop(coords, min_length, i + 1, new_coords, prev)
           ELSE filter_loop(coords, min_length, i + 1, Append(new_coords, cur), cur)

filter_small_segments(linestring, min_length) ==
  LET coords == get_coords(linestring)
  IN  IF Len(coords) < 2 THEN coords
      ELSE filter_loop(coords, min_length, 2, <<coords[1]>>, coords[1])

(* ------------------------- explode_sharp_angles ----------------------- *)

\* Mutant of explode_loop: the one-point line of the sharp vertex is not
\* emitted.
RECURSIVE explode_loop_no_corner(_, _, _, _, _)
explode_loop_no_corner(coords, t, i, lns, cur_line) ==
  IF i > Len(coords) THEN Append(lns, cur_line)
  ELSE LET theta == angle_between_segments(coords[i - 2], coords[i - 1], coords[i])
       IN  IF theta_le(theta, t)
           THEN explode_loop_no_corner(coords, t, i + 1, lns,
                                       Append(cur_line, coords[i]))
           ELSE explode_loop_no_corner(coords, t, i + 1, Append(lns, cur_line),
                                       <<coords[i - 1], coords[i]>>)

\* The loop of explode_sharp_angles from index i on (1-based; the source's
\* i is i - 1), with the emitted lines and the accumulating cur_line.
RECURSIVE explode_loop(_, _, _, _, _)
explode_loop(coords, t, i, lns, cur_line) ==
  IF i > Len(coords) THEN Append(lns, cur_line)
  ELSE LET theta == angle_between_segments(coords[i - 2], coords[i - 1], coords[i])
       IN  IF theta_le(theta, t)
           THEN explode_loop(coords, t, i + 1, lns, Append(cur_line, coords[i]))
           ELSE explode_loop(coords, t, i + 1,
                             Append(Append(lns, cur_line), <<coords[i - 1]>>),
                             <<coords[i - 1], coords[i]>>)

explode_sharp_angles(coords, t) ==
  IF Len(coords) < 3 THEN <<coords>>
  ELSE explode_loop(coords, t, 3, <<>>, <<coords[1], coords[2]>>)

(* ----------------------------- point_to_square ------------------------ *)

Feature(type, coordinates) ==
  [type |-> "Feature", properties |-> <<>>,
   geometry |-> [type |-> type, coordinates |-> coordinates]]

point_to_square(coord, w) ==
  LET c == WGS_TO_MERCATOR(coord)
      corners == << MERCATOR_TO_WGS(c, <<-1, -1>>, "axes", w),
                    MERCATOR_TO_WGS(c, << 1, -1>>, "axes", w),
                    MERCATOR_TO_WGS(c, << 1,  1>>, "axes", w),
                    MERCATOR_TO_WGS(c, <<-1,  1>>, "axes", w) >>
      new_coords == Append(corners, corners[1])
  IN  Feature("Polygon", <<new_coords>>)

geojson_point_to_poly(point, w) == point_to_square(get_coords(point), w)

(* ------------------ geojson_linestring_to_poly: line buffer ----------- *)

\* The array new_coords (indexed from 0, as in the source) together with
\* the number of assignments each slot has received.
new_array(n) ==
  [new_coords |-> [j \in 0..n |-> None], writes |-> [j \in 0..n |-> 0]]

\* new_coords[j] = v
store(st, j, v) ==
  [new_coords |-> [st.new_coords EXCEPT ![j] = v],
   writes |-> [st.writes EXCEPT ![j] = @ + 1]]

\* (nx, ny) / half_width for the segment p0 -> p1 of projected points:
\* the left-hand unit normal (-dy, dx) / mag.
unit_normal(p0, p1) ==
  LET dx == p1.at[1] - p0.at[1]
      dy == p1.at[2] - p0.at[2]
      m  == mag(dx, dy)
  IN  <<(-dy) \div m, dx \div m>>

zero_length(p0, p1) == p0.at = p1.at

neg(v) == <<-v[1], -v[2]>>

\* Mutant of fill_loop: the normal is not recomputed per segment, every
\* vertex is offset by the normal of the first segment.
RECURSIVE fill_loop_first_normal(_, _, _, _, _)
fill_loop_first_normal(coords, w, n, i, st) ==
  IF i > Len(coords) - 1 THEN st
  ELSE LET p1  == WGS_TO_MERCATOR(coords[i + 1])
           nrm == unit_normal(WGS_TO_MERCATOR(coords[1]), WGS_TO_MERCATOR(coords[2]))
           s1  == store(st, i, MERCATOR_TO_WGS(p1, nrm, "unit", w))
           s2  == store(s1, n - i - 1, MERCATOR_TO_WGS(p1, neg(nrm), "unit", w))
       IN  fill_loop_first_normal(coords, w, n, i + 1, s2)

\* Mutant of fill_loop: the backward index is n - i, one slot too far.
RECURSIVE fill_loop_off_by_one(_, _, _, _, _)
fill_loop_off_by_one(coords, w, n, i, st) ==
  IF i > Len(coords) - 1 THEN st
  ELSE LET p0  == WGS_TO_MERCATOR(coords[i])
           p1  == WGS_TO_MERCATOR(coords[i + 1])
           nrm == unit_normal(p0, p1)
           s1  == store(st, i, MERCATOR_TO_WGS(p1, nrm, "unit", w))
           s2  == store(s1, n - i, MERCATOR_TO_WGS(p1, neg(nrm), "unit", w))
       IN  fill_loop_off_by_one(coords, w, n, i + 1, s2)

\* The for loop of the line buffer from the source's index i on.
RECURSIVE fill_loop(_, _, _, _, _)
fill_loop(coords, w, n, i, st) ==
  IF i > Len(coords) - 1 THEN st
  ELSE LET p0 == WGS_TO_MERCATOR(coords[i])
           p1 == WGS_TO_MERCATOR(coords[i + 1])
       IN  IF zero_length(p0, p1) THEN [exc |-> "ZeroDivisionError"]
           ELSE LET nrm == unit_normal(p0, p1)
                    s1 == store(st, i, MERCATOR_TO_WGS(p1, nrm, "unit", w))
                    s2 == store(s1, n - i - 1, MERCATOR_TO_WGS(p1, neg(nrm), "unit", w))
                IN  fill_loop(coords, w, n, i + 1, s2)

\* Mutant of line_fill: the last slot repeats the backward offset of p0
\* instead of new_coords[0], so the ring is left open.
line_fill_unclosed(coords, w) ==
  LET n  == 2 * Len(coords)
      p0 == WGS_TO_MERCATOR(coords[1])
      p1 == WGS_TO_MERCATOR(coords[2])
  IN  IF zero_length(p0, p1) THEN [exc |-> "ZeroDivisionError"]
      ELSE LET nrm == unit_normal(p0, p1)
               s1 == store(new_array(n), 0, MERCATOR_TO_WGS(p0, nrm, "unit", w))
               s2 == store(s1, n - 1, MERCATOR_TO_WGS(p0, neg(nrm), "unit", w))
               s3 == store(s2, n, s2.new_coords[n - 1])
           IN  fill_loop(coords, w, n, 1, s3)

\* The else branch of geojson_linestring_to_poly up to the return: the
\* filled array, or the exception raised on a zero-length segment.
line_fill(coords, w) ==
  LET n  == 2 * Len(coords)
      p0 == WGS_TO_MERCATOR(coords[1])
      p1 == WGS_TO_MERCATOR(coords[2])
  IN  IF zero_length(p0, p1) THEN [exc |-> "ZeroDivisionError"]
      ELSE LET nrm == unit_normal(p0, p1)
               s1 == store(new_array(n), 0, MERCATOR_TO_WGS(p0, nrm, "unit", w))
               s2 == store(s1, n - 1, MERCATOR_TO_WGS(p0, neg(nrm), "unit", w))
               s3 == store(s2, n, s2.new_coords[0])
           IN  fill_loop(coords, w, n, 1, s3)

\* The Python list held by the array.
as_list(arr) == [j \in 1..Cardinality(DOMAIN arr) |-> arr[j - 1]]

line_buffer(coords, w) ==
  LET st == line_fill(coords, w)
  IN  IF Raised(st) THEN st ELSE Feature("Polygon", <<as_list(st.new_coords)>>)

(* --------------------- geojson_linestring_to_poly --------------------- *)

LineString(coordinates) == [type |-> "LineString", coordinates |-> coordinates]

\* The width the recursive call at line 130 buffers a piece with: the call
\* passes no width, so the parameter takes its default.
piece_width(w) == DEFAULT_WIDTH

RECURSIVE geojson_linestring_to_poly(_, _)
\* polys = [geojson_linestring_to_poly(line) for line in linestrings]
split_polys(lns, w) ==
  [i \in 1..Len(lns) |->
     geojson_linestring_to_poly(LineString(lns[i]), piece_width(w))]

geojson_linestring_to_poly(linestring, w) ==
  LET filtered == filter_small_segments(linestring, w)
  IN  IF Len(filtered) < 2
      THEN IF Len(filtered) = 0 THEN [exc |-> "IndexError"]
           ELSE point_to_square(filtered[1], w)
      ELSE LET lns == explode_sharp_angles(filtered, threshold)
           IN  IF Len(lns) > 1
               THEN LET polys == split_polys(lns, w)
                        bad   == {i \in 1..Len(lns) : Raised(polys[i])}
                    IN  IF bad # {}
                        THEN polys[CHOOSE i \in bad : \A j \in bad : i <= j]
                        ELSE Feature("MultiPolygon",
                               [i \in 1..Len(lns) |-> polys[i].geometry.coordinates])
               ELSE line_buffer(filtered, w)

(* ----------------------- convert_to_geojson_poly ---------------------- *)

\* Mutant of convert_to_geojson_poly: only Polygon passes through, a
\* MultiPolygon falls to the error branch.
convert_polygon_only(f, w) ==
  LET geom == f.geometry
      t    == geom.type
  IN  CASE t = "LineString" -> geojson_linestring_to_poly(geom, w)
        [] t = "Point" -> geojson_point_to_poly(geom, w)
        [] t = "Polygon" -> geom
        [] OTHER -> [exc |-> "Exception", msg |-> <<"Unsupported type: ", t>>]

\* Mutant of convert_to_geojson_poly: the error does not name the kind.
convert_anonymous_error(f, w) ==
  LET geom == f.geometry
      t    == geom.type
  IN  CASE t = "LineString" -> geojson_linestring_to_poly(geom, w)
        [] t = "Point" -> geojson_point_to_poly(geom, w)
        [] t = "Polygon" \/ t = "MultiPolygon" -> geom
        [] OTHER -> [exc |-> "Exception", msg |-> <<"Unsupported type">>]

convert_to_geojson_poly(f, w) ==
  LET geom == f.geometry
      t    == geom.type
  IN  CASE t = "LineString" -> geojson_linestring_to_poly(geom, w)
        [] t = "Point" -> geojson_point_to_poly(geom, w)
        [] t = "Polygon" \/ t = "MultiPolygon" -> geom
        [] OTHER -> [exc |-> "Exception", msg |-> <<"Unsupported type: ", t>>]

(* ------------------------------ inputs -------------------------------- *)

\* Coordinate sequences of length n that start at the origin and advance
\* by a step of Steps at a time.
RECURSIVE Paths(_)
Paths(n) ==
  IF n = 0 THEN {<<>>}
  ELSE IF n = 1 THEN {<< <<0, 0>> >>}
  ELSE {Append(p, <<p[n - 1][1] + s[1], p[n - 1][2] + s[2]>>) :
          p \in Paths(n - 1), s \in Steps}

LineStrings == UNION {Paths(n) : n \in 0..MaxLen}

Points == {<<0, 0>>, <<1, 2>>}

Ring1 == << <<0, 0>>, <<1, 0>>, <<1, 1>>, <<0, 0>> >>

Ring2 == << <<2, 2>>, <<3, 2>>, <<3, 3>>, <<2, 3>>, <<2, 2>> >>

Polygons == {<<Ring1>>, <<Ring2>>, <<Ring2, Ring1>>}

MultiPolygons == {<< <<Ring1>> >>, << <<Ring1>>, <<Ring2>> >>}

OtherKinds == {"GeometryCollection", "MultiPoint", "MultiLineString"}

Geometry(type, coordinates) == [type |-> type, coordinates |-> coordinates]

(* --------------------------- state machine ---------------------------- *)

Init ==
  /\ \/ \E c \in LineStrings : feature = [geometry |-> Geometry("LineString", c)]
     \/ \E c \in Points : feature = [geometry |-> Geometry("Point", c)]
     \/ \E c \in Polygons : feature = [geometry |-> Geometry("Polygon", c)]
     \/ \E c \in MultiPolygons : feature = [geometry |-> Geometry("MultiPolygon", c)]
     \/ \E t \in OtherKinds : feature = [geometry |-> Geometry(t, <<>>)]
  /\ width \in Widths
  /\ pc = "ready"
  /\ filtered_coords = <<>>
  /\ lines = <<>>
  /\ result = None
  /\ error = None

\* convert_to_geojson_poly(feature, width)
Convert ==
  /\ pc = "ready"
  /\ LET r == convert_to_geojson_poly(feature, width)
     IN  IF Raised(r) THEN error' = r /\ result' = None
                      ELSE error' = None /\ result' = r
  /\ pc' = "converted"
  /\ UNCHANGED <<feature, width, filtered_coords, lines>>

\* filter_small_segments(linestring, width), line 111
Filter ==
  /\ pc = "ready"
  /\ feature.geometry.type = "LineString"
  /\ filtered_coords' = filter_small_segments(feature.geometry, width)
  /\ pc' = "filtered"
  /\ UNCHANGED <<feature, width, lines, result, error>>

\* explode_sharp_angles(filtered_coords), line 122
Explode ==
  /\ pc = "filtered"
  /\ lines' = explode_sharp_angles(filtered_coords, threshold)
  /\ pc' = "exploded"
  /\ UNCHANGED <<feature, width, filtered_coords, result, error>>

Next == Convert \/ Filter \/ Explode

Spec == Init /\ [][Next]_vars

(* ====================================================================== *)
(* Properties                                                             *)
(* ====================================================================== *)

Kind == feature.geometry.type

Converted == pc = "converted"

Succeeded == Converted /\ error = None

\* The top-level call's filtered coordinates and the pieces it is split into.
TopFiltered == filter_small_segments(feature.geometry, width)

TopPieces == explode_sharp_angles(TopFiltered, threshold)

\* The rings inside c, the coordinates of the feature that
\* geojson_linestring_to_poly returned for (coords, w): c itself for a
\* Polygon, the rings of every entry for a MultiPolygon.
RECURSIVE RingsIn(_, _, _)
RingsIn(c, coords, w) ==
  IF geojson_linestring_to_poly(LineString(coords), w).geometry.type = "Polygon"
  THEN {c[j] : j \in 1..Len(c)}
  ELSE LET lns == explode_sharp_angles(filter_small_segments(LineString(coords), w),
                                       threshold)
       IN  UNION {RingsIn(c[i], lns[i], piece_width(w)) : i \in 1..Len(c)}

\* Every ring of the dispatcher's output for a Point or LineString input.
OutputRings ==
  IF Kind = "Point"
  THEN {result.geometry.coordinates[j] : j \in 1..Len(result.geometry.coordinates)}
  ELSE RingsIn(result.geometry.coordinates, feature.geometry.coordinates, width)

Closed(ring) == Len(ring) >= 1 /\ ring[1] = ring[Len(ring)]

\* C1: whenever the dispatcher converts a Point or a LineString, every ring
\* of its output (the ring of a Polygon, every ring of every entry of a
\* MultiPolygon, at any nesting depth) has its first coordinate equal to
\* its last.
C1_Closure ==
  (Succeeded /\ Kind \in {"Point", "LineString"}) =>
    /\ OutputRings # {}
    /\ \A ring \in OutputRings : Closed(ring)

\* C1 witness: a LineString was split and converted to a MultiPolygon, one
\* of whose entries was split again.
C1_Witness ==
  /\ Succeeded
  /\ Kind = "LineString"
  /\ result.geometry.type = "MultiPolygon"
  /\ \E i \in 1..Len(TopPieces) :
       split_polys(TopPieces, width)[i].geometry.type = "MultiPolygon"

\* C2 (as claimed): when the splitter cuts the line into more than one
\* piece, every piece is buffered with the caller's width: re-filtering a
\* piece uses minimum length width, and every output coordinate is offset
\* by width / 2.
C2_PiecesUseCallerWidth ==
  (Succeeded /\ Kind = "LineString" /\ Len(TopPieces) > 1) =>
    /\ \A i \in 1..Len(TopPieces) :
         filter_small_segments(LineString(TopPieces[i]), piece_width(width))
           = filter_small_segments(LineString(TopPieces[i]), width)
    /\ \A ring \in OutputRings : \A j \in 1..Len(ring) : ring[j].width = width

\* C3 (as claimed): when the splitter cuts the filtered line into k > 1
\* pieces, every piece is buffered directly to a Polygon, and the result is
\* a MultiPolygon with exactly k entries, each a list of closed rings.
C3_OneLevel ==
  (Converted /\ Kind = "LineString" /\ Len(TopPieces) > 1) =>
    /\ error = None
    /\ result.geometry.type = "MultiPolygon"
    /\ Len(result.geometry.coordinates) = Len(TopPieces)
    /\ \A i \in 1..Len(TopPieces) :
         LET poly == split_polys(TopPieces, width)[i]
         IN  /\ poly.geometry.type = "Polygon"
             /\ result.geometry.coordinates[i] = poly.geometry.coordinates
             /\ \A j \in 1..Len(poly.geometry.coordinates) :
                  Closed(poly.geometry.coordinates[j])

\* C4: the dispatcher returns a Polygon or MultiPolygon input as it is,
\* whatever the width, raises nothing and leaves the input as it was.
C4_Passthrough ==
  [][(pc = "ready" /\ pc' = "converted" /\ Kind \in {"Polygon", "MultiPolygon"}) =>
       /\ error' = None
       /\ result' = feature.geometry
       /\ result'.type = Kind
       /\ feature' = feature]_vars

\* C4 witness: a MultiPolygon went through the dispatcher.
C4_Witness == Converted /\ Kind = "MultiPolygon" /\ result = feature.geometry

SupportedKinds == {"Point", "LineString", "Polygon", "MultiPolygon"}

\* C5: a geometry of an unsupported kind makes the dispatcher raise the
\* unsupported-kind error naming that kind, with no output; for the four
\* supported kinds that error is never raised.
C5_UnsupportedKind ==
  Converted =>
    IF Kind \notin SupportedKinds
    THEN /\ error = [exc |-> "Exception", msg |-> <<"Unsupported type: ", Kind>>]
         /\ result = None
    ELSE "msg" \notin DOMAIN error

\* C5 witness: a GeometryCollection was dispatched and an error was raised.
C5_Witness == Converted /\ Kind = "GeometryCollection" /\ Raised(error)

\* The turn at the interior vertex m of coords (1-based) exceeds the threshold.
SharpAt(coords, m) ==
  ~theta_le(angle_between_segments(coords[m - 1], coords[m], coords[m + 1]), threshold)

SharpVertices(coords) == {m \in 2..(Len(coords) - 1) : SharpAt(coords, m)}

\* The j-th smallest element of the set S of numbers.
Nth(S, j) == CHOOSE m \in S : Cardinality({x \in S : x < m}) = j - 1

\* C6: on n >= 3 points with s sharp vertices the splitter returns 2s+1
\* sub-sequences in path order: the runs between consecutive sharp vertices
\* (each ending at the next sharp vertex and starting at the previous one)
\* alternate with the single-point sub-sequences of the sharp vertices, and
\* the last run is always there; with fewer than 3 points or s = 0 the
\* result is the input alone.
C6_Split ==
  pc = "exploded" =>
    LET coords == filtered_coords
        n      == Len(coords)
        S      == IF n < 3 THEN {} ELSE SharpVertices(coords)
        s      == Cardinality(S)
        cut(j) == IF j = 0 THEN 1 ELSE IF j = s + 1 THEN n ELSE Nth(S, j)
    IN  IF s = 0
        THEN lines = <<coords>>
        ELSE /\ Len(lines) = 2 * s + 1
             /\ \A j \in 1..s : lines[2 * j] = <<coords[cut(j)]>>
             /\ \A j \in 1..(s + 1) :
                  /\ lines[2 * j - 1] = SubSeq(coords, cut(j - 1), cut(j))
                  /\ Len(lines[2 * j - 1]) >= 2

\* C6 witness: the splitter has cut a line at two sharp vertices.
C6_Witness ==
  /\ pc = "exploded"
  /\ Len(filtered_coords) >= 3
  /\ Cardinality(SharpVertices(filtered_coords)) = 2
  /\ Len(lines) = 5

\* s is a subsequence of t, order kept.
RECURSIVE IsSubseq(_, _)
IsSubseq(s, t) ==
  IF s = <<>> THEN TRUE
  ELSE IF t = <<>> THEN FALSE
  ELSE IF Head(s) = Head(t) THEN IsSubseq(Tail(s), Tail(t))
  ELSE IsSubseq(s, Tail(t))

\* C7: the filter returns an order-preserving subsequence of its input that
\* keeps the first element and in which consecutive coordinates are at
\* least min_length apart; fewer than 2 points come back unchanged.
C7_Filter ==
  pc = "filtered" =>
    LET coords == feature.geometry.coordinates
    IN  IF Len(coords) < 2
        THEN filtered_coords = coords
        ELSE /\ IsSubseq(filtered_coords, coords)
             /\ Len(filtered_coords) >= 1
             /\ filtered_coords[1] = coords[1]
             /\ \A j \in 1..(Len(filtered_coords) - 1) :
                  distance_sq(filtered_coords[j], filtered_coords[j + 1])
                    >= width * width

\* C7 witness: the filter dropped some coordinates and kept three or more.
C7_Witness ==
  /\ pc = "filtered"
  /\ Len(filtered_coords) >= 3
  /\ Len(filtered_coords) < Len(feature.geometry.coordinates)

\* The line buffer ran: the filtered line has k >= 2 points and no sharp turn.
LineBuffered ==
  /\ Converted
  /\ Kind = "LineString"
  /\ Len(TopFiltered) >= 2
  /\ Len(TopPieces) = 1

\* The unit normal of the segment a -> b of geographic points.
NormalOf(a, b) == unit_normal(WGS_TO_MERCATOR(a), WGS_TO_MERCATOR(b))

\* The ring of a Polygon result, indexed from 0 as in the source.
RingAt(i) == result.geometry.coordinates[1][i + 1]

\* The normal the code uses at vertex i (from 0) of the filtered line.
EndingAt(i) ==
  IF i = 0 THEN NormalOf(TopFiltered[1], TopFiltered[2])
  ELSE NormalOf(TopFiltered[i], TopFiltered[i + 1])

StartingAt(i) == NormalOf(TopFiltered[i + 1], TopFiltered[i + 2])

InteriorVertices == 1..(Len(TopFiltered) - 2)

\* C8 (as claimed): every interior vertex is offset in the +n chain by the
\* normal of the segment ending at it and in the -n chain by the normal of
\* the segment starting at it.
C8_TwoNormals ==
  (LineBuffered /\ error = None) =>
    \A i \in InteriorVertices :
      /\ RingAt(i).vec = EndingAt(i)
      /\ RingAt(2 * Len(TopFiltered) - 1 - i).vec = neg(StartingAt(i))

\* C8 (amended): every interior vertex is offset in both chains by the
\* normal of the segment ending at it: by +n in the forward chain and by
\* -n of that same segment in the backward chain.
C8_OneNormal ==
  (LineBuffered /\ error = None) =>
    \A i \in InteriorVertices :
      /\ RingAt(i).base = TopFiltered[i + 1]
      /\ RingAt(i).vec = EndingAt(i)
      /\ RingAt(2 * Len(TopFiltered) - 1 - i).base = TopFiltered[i + 1]
      /\ RingAt(2 * Len(TopFiltered) - 1 - i).vec = neg(EndingAt(i))

\* C8 witness: a buffered line bends at an interior vertex, so the two
\* segments meeting there have different normals.
C8_Witness ==
  /\ LineBuffered
  /\ error = None
  /\ \E i \in InteriorVertices : EndingAt(i) # StartingAt(i)

\* C9 (as claimed): a LineString with fewer than 2 points left after
\* filtering, the empty one included, is buffered as a point: a Polygon
\* with one closed ring of 5 entries, and nothing is raised.
C9_FewPoints ==
  (Converted /\ Kind = "LineString" /\ Len(TopFiltered) < 2) =>
    /\ error = None
    /\ result.geometry.type = "Polygon"
    /\ Len(result.geometry.coordinates) = 1
    /\ Len(result.geometry.coordinates[1]) = 5
    /\ Closed(result.geometry.coordinates[1])
    /\ \A j \in 1..5 : result.geometry.coordinates[1][j].norm = "axes"

\* The unit normals of the segments that meet at vertex i (from 0).
AdjacentNormals(i) ==
  {NormalOf(TopFiltered[j], TopFiltered[j + 1]) :
     j \in {x \in {i, i + 1} : x >= 1 /\ x < Len(TopFiltered)}}

\* C10: for k >= 2 filtered points without a sharp turn the ring has 2k+1
\* entries, none unset: entries 0..k-1 are the +n offsets of p0..p(k-1),
\* entries k..2k-1 the -n offsets of p(k-1)..p0, entry 2k repeats entry 0,
\* and every slot of the array has been assigned exactly once.
C10_RingLayout ==
  LineBuffered =>
    LET k    == Len(TopFiltered)
        fill == line_fill(TopFiltered, width)
    IN  /\ error = None
        /\ result.geometry.type = "Polygon"
        /\ Len(result.geometry.coordinates) = 1
        /\ Len(result.geometry.coordinates[1]) = 2 * k + 1
        /\ \A i \in 0..(2 * k) : RingAt(i) # None
        /\ \A i \in 0..(k - 1) :
             /\ RingAt(i).base = TopFiltered[i + 1]
             /\ RingAt(i).norm = "unit"
             /\ RingAt(i).vec \in AdjacentNormals(i)
             /\ RingAt(2 * k - 1 - i).base = TopFiltered[i + 1]
             /\ RingAt(2 * k - 1 - i).norm = "unit"
             /\ RingAt(2 * k - 1 - i).vec \in {neg(v) : v \in AdjacentNormals(i)}
        /\ RingAt(2 * k) = RingAt(0)
        /\ as_list(fill.new_coords) = result.geometry.coordinates[1]
        /\ \A i \in 0..(2 * k) : fill.writes[i] = 1

\* C10 witness: a line of four retained points was buffered to one ring.
C10_Witness ==
  /\ LineBuffered
  /\ error = None
  /\ Len(TopFiltered) = 4
  /\ Len(result.geometry.coordinates[1]) = 9

====
